---------------------------- MODULE Spec2Model ----------------------------
(***************************************************************************)
(* Model of mayors.py: the scraper of usmayors.org.                        *)
(*                                                                         *)
(* A text (a Python str, a NavigableString, an attribute value) is a       *)
(* sequence of tokens.  The tokens are the separator characters the code   *)
(* looks at (",", ":", "/", "(", ")", " ", "\n", "-", the digits) and      *)
(* words that the code never looks into ("Springfield", "Population",      *)
(* "Web Site", "tel:").  `kw in text` is then the occurrence of the        *)
(* keyword's token in the text.                                            *)
(*                                                                         *)
(* A node of the parsed page is a record                                   *)
(*     [name, text, attrs, kids]                                           *)
(* name = "" for a NavigableString (whose text is `text`), and the tag     *)
(* name for a Tag (whose attributes are `attrs`, a function from attribute *)
(* names to texts, and whose contents are `kids`).                         *)
(***************************************************************************)
EXTENDS Integers, Sequences, FiniteSets

VARIABLES states,    \* args.state: the list of states to scrape
          site,      \* what the site answers for each state
          pc,        \* position of the program
          format,    \* args.format
          exc,       \* the exception that ended the run ("" when none)
          idx,       \* get_mayors: how many states the generator has taken
          requests,  \* number of requests.post calls issued
          pending,   \* get_mayors: records of the current state not yet yielded
          yielded,   \* the records the generator has handed to the writer
          sink       \* what has been written to args.out

vars == <<states, site, pc, format, exc, idx, requests, pending, yielded, sink>>

---------------------------------------------------------------------------
(* Python values *)

\* Python's None, where a text could stand.
None == <<"<None>">>

\* The empty dict.
EmptyDict == [k \in {} |-> <<>>]

\* d[k] = v
Put(d, k, v) == [x \in (DOMAIN d) \cup {k} |-> IF x = k THEN v ELSE d[x]]

\* str.split(sep): the pieces between the occurrences of sep, at least one.
RECURSIVE split(_, _)
split(t, sep) ==
    IF \A i \in 1..Len(t) : t[i] # sep
    THEN <<t>>
    ELSE LET i == CHOOSE j \in 1..Len(t) :
                      t[j] = sep /\ \A k \in 1..(j-1) : t[k] # sep
         IN  <<SubSeq(t, 1, i-1)>> \o split(SubSeq(t, i+1, Len(t)), sep)

Whitespace == {" ", "\n"}

\* str.strip(): without its leading and trailing whitespace.
RECURSIVE lstrip(_)
lstrip(t) == IF t # <<>> /\ Head(t) \in Whitespace THEN lstrip(Tail(t)) ELSE t

RECURSIVE rstrip(_)
rstrip(t) ==
    IF t # <<>> /\ t[Len(t)] \in Whitespace
    THEN rstrip(SubSeq(t, 1, Len(t)-1)) ELSE t

strip(t) == rstrip(lstrip(t))

\* str.replace(a, b) for a one-token a; b is a text (<<>> deletes).
RECURSIVE replace(_, _, _)
replace(t, a, b) ==
    IF t = <<>> THEN <<>>
    ELSE (IF Head(t) = a THEN b ELSE <<Head(t)>>) \o replace(Tail(t), a, b)

\* kw in t, for a str t
InStr(kw, t) == \E i \in 1..Len(t) : t[i] = kw

---------------------------------------------------------------------------
(* BeautifulSoup nodes *)

Str(t) == [name |-> "", text |-> t, attrs |-> EmptyDict, kids |-> <<>>]
Tag(n, a, k) == [name |-> n, text |-> <<>>, attrs |-> a, kids |-> k]

IsStr(node) == node.name = ""

\* kw in item: a substring test on a NavigableString, and for a Tag
\* (Tag.__contains__) whether kw equals one of its direct contents.
In(kw, item) ==
    IF IsStr(item) THEN InStr(kw, item.text)
    ELSE \E i \in 1..Len(item.kids) :
            IsStr(item.kids[i]) /\ item.kids[i].text = <<kw>>

\* item.string: a NavigableString is its own string; a Tag with exactly one
\* child has the string of that child; any other Tag has None.
RECURSIVE string(_)
string(item) ==
    IF IsStr(item) THEN item.text
    ELSE IF Len(item.kids) = 1 THEN string(item.kids[1])
    ELSE None

\* for br in mayor_ul.find_all('br'): br.decompose()
RECURSIVE decompose_br(_)
decompose_br(nodes) ==
    IF nodes = <<>> THEN <<>>
    ELSE LET n == Head(nodes)
         IN  (IF n.name = "br" THEN <<>>
              ELSE <<[n EXCEPT !.kids = decompose_br(n.kids)]>>)
             \o decompose_br(Tail(nodes))

---------------------------------------------------------------------------
(* parse_phone *)

\* `if p:` is false for None and for the empty string
parse_phone(p) ==
    IF p # None /\ p # <<>>
    THEN replace(replace(replace(p, "(", <<>>), ")", <<>>), " ", <<"-">>)
    ELSE p

---------------------------------------------------------------------------
(* datetime.strptime(s, "%m/%d/%Y") and strftime("%Y-%m-%d") *)

Digits == <<"0", "1", "2", "3", "4", "5", "6", "7", "8", "9">>

IsDigit(c) == \E i \in 1..10 : Digits[i] = c

DigitVal(c) == (CHOOSE i \in 1..10 : Digits[i] = c) - 1

RECURSIVE NumVal(_)
NumVal(t) ==
    IF t = <<>> THEN 0
    ELSE 10 * NumVal(SubSeq(t, 1, Len(t)-1)) + DigitVal(t[Len(t)])

AllDigits(t) == \A i \in 1..Len(t) : IsDigit(t[i])

IsLeap(y) == (y % 4 = 0) /\ ((y % 100 # 0) \/ (y % 400 = 0))

DaysIn(m, y) ==
    IF m = 2 THEN (IF IsLeap(y) THEN 29 ELSE 28)
    ELSE IF m \in {4, 6, 9, 11} THEN 30 ELSE 31

\* %d also takes a blank followed by one digit
DayDigits(t) ==
    IF Len(t) = 2 /\ t[1] = " " THEN Tail(t) ELSE t

\* The date strptime reads, or exc = "ValueError".
strptime(t) ==
    LET p == split(t, "/")
    IN  IF /\ Len(p) = 3
           /\ Len(p[1]) \in 1..2 /\ AllDigits(p[1])
           /\ Len(p[2]) \in 1..2 /\ AllDigits(DayDigits(p[2]))
           /\ Len(p[3]) = 4 /\ AllDigits(p[3])
           /\ NumVal(p[1]) \in 1..12
           /\ NumVal(p[3]) >= 1
           /\ NumVal(DayDigits(p[2])) \in 1..DaysIn(NumVal(p[1]), NumVal(p[3]))
        THEN [exc |-> "", month |-> NumVal(p[1]),
              day |-> NumVal(DayDigits(p[2])), year |-> NumVal(p[3])]
        ELSE [exc |-> "ValueError", month |-> 0, day |-> 0, year |-> 0]

Pad2(n) == <<Digits[(n \div 10) + 1], Digits[(n % 10) + 1]>>

Pad4(n) == <<Digits[(n \div 1000) + 1], Digits[((n \div 100) % 10) + 1]>>
           \o Pad2(n % 100)

strftime(d) == Pad4(d.year) \o <<"-">> \o Pad2(d.month) \o <<"-">> \o Pad2(d.day)

---------------------------------------------------------------------------
(* BeautifulSoup(response.text, 'html.parser'): the markup of a card *)

(* A card (one ul of the page) is written [photo, name, place, extra]: the
   kind of markup that stands at each place of it.  contents(ul) is the list
   of child nodes the parser makes of it.  Two texts are two nodes only
   with a tag between them, so every text that could follow a text comes
   after a br. *)

Attr(k, v) == Put(EmptyDict, k, v)
NL == Str(<<"\n">>)
BR == Tag("br", EmptyDict, <<>>)
Bold(t) == Tag("b", EmptyDict, <<Str(t)>>)
Span(t) == Tag("span", EmptyDict, <<Str(t)>>)
Link(href, t) == Tag("a", Attr("href", href), <<Str(t)>>)

PhotoMarkup(k) ==
    CASE k = "img"       -> <<Tag("img", Attr("src", <<"http://img/1.jpg">>), <<>>)>>
      [] k = "img-nosrc" -> <<Tag("img", EmptyDict, <<>>)>>
      [] k = "text"      -> <<BR, Str(<<"no photo">>)>>
      [] k = "none"      -> <<>>

NameMarkup(k) ==
    CASE k = "b"        -> <<Bold(<<"Ann Archer">>)>>
      [] k = "b-empty"  -> <<Tag("b", EmptyDict, <<>>)>>
      [] k = "b-nested" -> <<Tag("b", EmptyDict, <<Span(<<"Ann">>), Str(<<" ", "Archer">>)>>)>>
      [] k = "b-br"     -> <<Tag("b", EmptyDict, <<Str(<<"Ann">>), BR, Str(<<"Archer">>)>>)>>
      [] k = "text"     -> <<BR, Str(<<"Ann Archer">>)>>
      [] k = "none"     -> <<>>

PlaceMarkup(k) ==
    CASE k = "plain"     -> <<BR, Str(<<"Springfield", ",", " ", "Illinois">>)>>
      [] k = "spaces"    -> <<BR, Str(<<" ", "Shelbyville", " ", ",", " ", "Kentucky", "\n">>)>>
      [] k = "nocomma"   -> <<BR, Str(<<"Springfield", " ", "Illinois">>)>>
      [] k = "twocommas" -> <<BR, Str(<<"Springfield", ",", " ", "Illinois", ",", " ", "USA">>)>>
      [] k = "emptycity" -> <<BR, Str(<<",", " ", "Illinois">>)>>
      [] k = "tag"       -> <<BR, Span(<<"Springfield", ",", " ", "Illinois">>)>>
      [] k = "none"      -> <<>>

PopulationText == <<"Population", ":", " ", "1", ",", "2", "3", "4">>
ElectionText(date) == <<"Next Election Date", ":", " ">> \o date
TelLink == Link(<<"tel:", "555-123-4567">>, <<"(", "555", ")", " ", "123", "-", "4567">>)
MailLink == Link(<<"mailto:", "ann@springfield.gov">>, <<"ann@springfield.gov">>)
SiteLink == Link(<<"http://springfield.gov">>, <<"Web Site">>)
BioLink == Link(<<"http://bio/ann">>, <<"Bio">>)

ExtraMarkup(k) ==
    CASE k = "none" -> <<>>
      [] k = "full" ->
           <<BR, Str(PopulationText),
             BR, Str(ElectionText(<<"1", "1", "/", "5", "/", "2", "0", "2", "4">>)),
             BR, TelLink, BR, MailLink, BR, SiteLink, BioLink, NL>>
      [] k = "population" -> <<BR, Str(PopulationText)>>
      [] k = "population-nocolon" -> <<BR, Str(<<"Population", " ", "unknown">>)>>
      [] k = "population-tag" -> <<BR, Bold(<<"Population">>)>>
      [] k = "date" ->
           <<BR, Str(ElectionText(<<"0", "2", "/", "2", "9", "/", "2", "0", "2", "4">>))>>
      [] k = "date-bad-month" ->
           <<BR, Str(ElectionText(<<"1", "3", "/", "1", "/", "2", "0", "2", "4">>))>>
      [] k = "date-bad-day" ->
           <<BR, Str(ElectionText(<<"2", "/", "2", "9", "/", "2", "0", "2", "3">>))>>
      [] k = "date-text" -> <<BR, Str(ElectionText(<<"TBD">>))>>
      [] k = "tel" -> <<BR, TelLink>>
      [] k = "mailto" -> <<BR, MailLink>>
      [] k = "site" -> <<BR, SiteLink>>
      [] k = "bio" -> <<BR, BioLink>>
      [] k = "site-long" ->
           <<BR, Link(<<"http://springfield.gov">>, <<"City", " ", "Web Site">>)>>
      [] k = "site-nohref" -> <<BR, Tag("a", EmptyDict, <<Str(<<"Web Site">>)>>)>>
      [] k = "bio-tel" -> <<BR, Link(<<"tel:", "555-123-4567">>, <<"Bio">>)>>
      [] k = "tel-inside" -> <<BR, Link(<<"http://call/?", "tel:", "555">>, <<"Call">>)>>
      [] k = "mailto-nested" ->
           <<BR, Tag("a", Attr("href", <<"mailto:", "ann@springfield.gov">>),
                     <<Span(<<"ann">>), Str(<<"@springfield.gov">>)>>)>>
      [] k = "a-other" -> <<BR, Link(<<"http://springfield.gov/home">>, <<"Home">>)>>
      [] k = "a-nohref" -> <<BR, Tag("a", EmptyDict, <<Str(<<"Contact">>)>>)>>

\* mayor_ul.contents
contents(ul) ==
    <<NL>> \o PhotoMarkup(ul.photo) \o NameMarkup(ul.name)
           \o PlaceMarkup(ul.place) \o ExtraMarkup(ul.extra)

---------------------------------------------------------------------------
(* get_mayors_for_state *)

\* raise_for_status left out: no status raises.
raise_for_status_ignored(status) == ""

\* response.raise_for_status(): an HTTPError for a 4xx or 5xx status
raise_for_status(status) == IF status \in 400..599 THEN "HTTPError" ELSE ""

\* The dict of the common fields (the try block), or the exception raised
\* while building it.  Python's items[k] is items[k+1] here.  The entries
\* are evaluated in the order written.
common_fields(items) ==
    LET raise(e) == [exc |-> e, data |-> EmptyDict]
    IN  IF Len(items) < 2 THEN raise("IndexError")             \* items[1]
        ELSE IF IsStr(items[2]) THEN raise("TypeError")        \* str['src']
        ELSE IF "src" \notin DOMAIN items[2].attrs THEN raise("KeyError")
        ELSE IF Len(items) < 3 THEN raise("IndexError")        \* items[2]
        ELSE IF Len(items) < 4 THEN raise("IndexError")        \* items[3]
        ELSE IF ~IsStr(items[4]) THEN raise("TypeError")       \* Tag.split is None
        ELSE LET parts == split(items[4].text, ",")
             IN  IF Len(parts) < 2 THEN raise("IndexError")    \* split(',')[1]
                 ELSE [exc  |-> "",
                       data |-> Put(Put(Put(Put(EmptyDict,
                                   "img_url", items[2].attrs["src"]),
                                   "name", string(items[3])),
                                   "city", strip(parts[1])),
                                   "state", strip(parts[2]))]

\* if 'Population' in item: data['population'] = item.split(':')[1].replace(',', '')
match_population(data, item) ==
    IF ~In("Population", item) THEN [exc |-> "", data |-> data]
    ELSE IF ~IsStr(item) THEN [exc |-> "TypeError", data |-> data]
    ELSE LET parts == split(item.text, ":")
         IN  IF Len(parts) < 2 THEN [exc |-> "IndexError", data |-> data]
             ELSE [exc  |-> "",
                   data |-> Put(data, "population", replace(parts[2], ",", <<>>))]

\* if 'Next Election Date' in item: ... strptime ... strftime
match_next_election(data, item) ==
    IF ~In("Next Election Date", item) THEN [exc |-> "", data |-> data]
    ELSE IF ~IsStr(item) THEN [exc |-> "TypeError", data |-> data]
    ELSE LET parts == split(item.text, ":")
         IN  IF Len(parts) < 2 THEN [exc |-> "IndexError", data |-> data]
             ELSE LET parsed_next_election == strptime(strip(parts[2]))
                  IN  IF parsed_next_election.exc # ""
                      THEN [exc |-> parsed_next_election.exc, data |-> data]
                      ELSE [exc  |-> "",
                            data |-> Put(data, "next_election",
                                         strftime(parsed_next_election))]

\* if item.name == 'a': the if / elif chain on the link's text and href
match_link(data, item) ==
    LET hasHref == "href" \in DOMAIN item.attrs
    IN  IF item.name # "a" THEN [exc |-> "", data |-> data]
        ELSE IF In("Web Site", item)
        THEN IF hasHref
             THEN [exc |-> "", data |-> Put(data, "city_site_url", item.attrs["href"])]
             ELSE [exc |-> "KeyError", data |-> data]
        ELSE IF In("Bio", item)
        THEN IF hasHref
             THEN [exc |-> "", data |-> Put(data, "bio_url", item.attrs["href"])]
             ELSE [exc |-> "KeyError", data |-> data]
        ELSE IF ~hasHref                     \* 'tel:' in None
        THEN [exc |-> "TypeError", data |-> data]
        ELSE IF InStr("tel:", item.attrs["href"])
        THEN [exc |-> "", data |-> Put(data, "phone", parse_phone(string(item)))]
        ELSE IF InStr("mailto:", item.attrs["href"])
        THEN [exc |-> "", data |-> Put(data, "email", string(item))]
        ELSE [exc |-> "", data |-> data]

\* One pass of the body of `for item in items`.
match_item(data, item) ==
    LET r1 == match_population(data, item)
    IN  IF r1.exc # "" THEN r1
        ELSE LET r2 == match_next_election(r1.data, item)
             IN  IF r2.exc # "" THEN r2
                 ELSE match_link(r2.data, item)

\* for item in items: ...
RECURSIVE match_items(_, _)
match_items(data, items) ==
    IF items = <<>> THEN [exc |-> "", data |-> data]
    ELSE LET r == match_item(data, Head(items))
         IN  IF r.exc # "" THEN r ELSE match_items(r.data, Tail(items))

\* parsed_list.insert(0, data) in place of append
append_mayor_front(parsed_list, data) == <<data>> \o parsed_list

\* parsed_list.append(data)
append_mayor(parsed_list, data) == Append(parsed_list, data)

\* Whether the exception leaves the try block: only IndexError is caught.
escapes_try(e) == e # "" /\ e # "IndexError"

\* for mayor_ul in mayor_list: ...
RECURSIVE parse_mayor_list(_, _)
parse_mayor_list(mayor_list, parsed_list) ==
    IF mayor_list = <<>> THEN [exc |-> "", list |-> parsed_list]
    ELSE LET items  == decompose_br(contents(Head(mayor_list)))
             common == common_fields(items)
         IN  IF escapes_try(common.exc) THEN [exc |-> common.exc, list |-> <<>>]
             ELSE IF common.exc = "IndexError"          \* logging.error; continue
             THEN parse_mayor_list(Tail(mayor_list), parsed_list)
             ELSE LET r == match_items(common.data, items)
                  IN  IF r.exc # "" THEN [exc |-> r.exc, list |-> <<>>]
                      ELSE parse_mayor_list(Tail(mayor_list),
                                            append_mayor(parsed_list, r.data))

\* A page is [status, content, uls]: the HTTP status, whether the body has a
\* div.post-content, and the ul elements of that div, in order.
get_mayors_for_state(page) ==
    IF raise_for_status(page.status) # ""
    THEN [exc |-> raise_for_status(page.status), list |-> <<>>]
    ELSE IF ~page.content                    \* None.find_all
    THEN [exc |-> "AttributeError", list |-> <<>>]
    ELSE IF page.uls = <<>> THEN [exc |-> "", list |-> <<>>]
    ELSE parse_mayor_list(page.uls, <<>>)

---------------------------------------------------------------------------
(* the writers *)

CSV_FIELDS == <<"name", "email", "phone", "bio_url", "img_url", "city",
                "state", "population", "city_site_url", "next_election">>

\* DictWriter.writeheader(): the row of the field names
writeheader == [i \in 1..Len(CSV_FIELDS) |-> <<CSV_FIELDS[i]>>]

\* DictWriter.writerow(mayor): a missing key is written as restval (''),
\* and the csv writer writes None as the empty string.
writerow(mayor) ==
    [i \in 1..Len(CSV_FIELDS) |->
        IF CSV_FIELDS[i] \notin DOMAIN mayor THEN <<>>
        ELSE IF mayor[CSV_FIELDS[i]] = None THEN <<>>
        ELSE mayor[CSV_FIELDS[i]]]

\* The JSON encoding of a value: null for None, a string otherwise.
json_value(v) ==
    IF v = None THEN [type |-> "null", str |-> <<>>]
    ELSE [type |-> "string", str |-> v]

json_object(mayor) == [k \in DOMAIN mayor |-> json_value(mayor[k])]

\* json.dump(list(mayors), out): one array, one object per record
json_dump(mayors) == [i \in 1..Len(mayors) |-> json_object(mayors[i])]

---------------------------------------------------------------------------
(* parse_arguments *)

\* os.path.splitext(fn)[1]: from the last dot on, unless the name has no dot
\* after its first character.
splitext_ext(fn) ==
    IF \E i \in 2..Len(fn) : fn[i] = "."
    THEN LET i == CHOOSE j \in 2..Len(fn) :
                      fn[j] = "." /\ \A k \in (j+1)..Len(fn) : fn[k] # "."
         IN  SubSeq(fn, i, Len(fn))
    ELSE <<>>

\* t[1:]
slice_from_1(t) == IF t = <<>> THEN <<>> ELSE Tail(t)

\* args.format once the extension has been looked at
guess_format(format_arg, fn) ==
    IF format_arg # None THEN format_arg
    ELSE IF fn # <<"<stdout>">> THEN slice_from_1(splitext_ext(fn))
    ELSE <<"csv">>

\* the keys of the dict of writers
Writers == {<<"csv">>, <<"json">>}

\* the lookup with a default, {...}.get(args.format, write_to_csv): no KeyError
writer_lookup_default(fmt) == ""

\* {...}[args.format]
writer_lookup(fmt) == IF fmt \in Writers THEN "" ELSE "KeyError"

---------------------------------------------------------------------------
(* the inputs: state lists, and the pages the site answers with *)

MaxStates == 2
MaxBlocks == 1

StateNames == {"Alabama", "Alaska"}

SeqsUpTo(S, n) == UNION {[1..k -> S] : k \in 0..n}

Card(photo, name, place, extra) ==
    [photo |-> photo, name |-> name, place |-> place, extra |-> extra]

\* A complete card, as the site lays it out.
GoodA == Card("img", "b", "plain", "full")
\* A card with the leading fields only.
GoodB == Card("img", "b", "spaces", "none")
\* A card cut short: no name node, no "City, State" node.
Short == Card("img", "none", "none", "none")
\* A card whose election date is no date.
BadDate == Card("img", "b", "plain", "date-bad-month")

Cards == {GoodA, GoodB, Short}

Page(uls) == [status |-> 200, content |-> TRUE, uls |-> uls]
\* An answer with an error status, whatever its body holds.
ServerErrorPage == [status |-> 500, content |-> TRUE, uls |-> <<GoodB>>]
NotFoundPage == [status |-> 404, content |-> FALSE, uls |-> <<>>]
\* A body without a div.post-content.
NoContentPage == [status |-> 200, content |-> FALSE, uls |-> <<>>]
\* Two valid cards around a malformed one.
ScenarioPage == Page(<<GoodA, Short, GoodB>>)

\* Every page of at most MaxBlocks cards, and the pages above.
Pages ==
    {Page(u) : u \in SeqsUpTo(Cards, MaxBlocks)}
      \cup {ServerErrorPage, NotFoundPage, NoContentPage, ScenarioPage,
            Page(<<GoodB, BadDate>>), Page(<<BadDate, GoodA>>)}

\* Every card of one kind of markup at each place.
Photos == {"img", "img-nosrc", "text", "none"}
Names == {"b", "b-empty", "b-nested", "b-br", "text", "none"}
Places == {"plain", "spaces", "nocomma", "twocommas", "emptycity", "tag", "none"}
Extras == {"none", "full", "population", "population-nocolon", "population-tag",
           "date", "date-bad-month", "date-bad-day", "date-text", "tel", "mailto",
           "site", "bio", "site-long", "site-nohref", "bio-tel", "tel-inside",
           "mailto-nested", "a-other", "a-nohref"}

AllCards == [photo : Photos, name : Names, place : Places, extra : Extras]

\* parse_arguments' inputs: --format (None when not given) and the name of
\* the output file
FormatArgs == {None, <<"csv">>, <<"json">>, <<"xml">>}
OutNames == {<<"<stdout>">>, <<"mayors", ".", "csv">>, <<"mayors", ".", "json">>,
             <<"mayors", ".", "txt">>, <<"mayors">>}

\* argparse's choices=['csv', 'json']
Choices == {<<"csv">>, <<"json">>}

---------------------------------------------------------------------------
(* the program *)

Init ==
    /\ states \in SeqsUpTo(StateNames, MaxStates)
    /\ site \in [StateNames -> Pages]
    /\ pc = "args"
    /\ format = None
    /\ exc = ""
    /\ idx = 0
    /\ requests = 0
    /\ pending = <<>>
    /\ yielded = <<>>
    /\ sink = <<>>

\* parse_arguments(): argparse rejects a --format outside the choices; an
\* unrecognised guessed format is a KeyError.
parse_arguments ==
    /\ pc = "args"
    /\ \E format_arg \in FormatArgs, fn \in OutNames :
         IF format_arg # None /\ format_arg \notin Choices
         THEN /\ format' = format_arg
              /\ exc' = "SystemExit"
              /\ pc' = "failed"
         ELSE /\ format' = guess_format(format_arg, fn)
              /\ exc' = writer_lookup(format')
              /\ pc' = IF exc' = "" THEN "main" ELSE "failed"
    /\ UNCHANGED <<states, site, idx, requests, pending, yielded, sink>>

\* __main__ with the csv writer, up to the first pull on the generator:
\* w.writeheader()
write_to_csv_start ==
    /\ pc = "main"
    /\ format = <<"csv">>
    /\ sink' = Append(sink, writeheader)
    /\ pc' = "iter"
    /\ UNCHANGED <<states, site, format, exc, idx, requests, pending, yielded>>

\* __main__ with the json writer, up to the first pull on the generator:
\* list(mayors) starts
write_to_json_start ==
    /\ pc = "main"
    /\ format = <<"json">>
    /\ pc' = "iter"
    /\ UNCHANGED <<states, site, format, exc, idx, requests, pending, yielded, sink>>

\* get_mayors: the next state of `for state in states`, and its call of
\* get_mayors_for_state; an exception of that call ends the run.
get_mayors_next_state ==
    /\ pc = "iter"
    /\ pending = <<>>
    /\ idx < Len(states)
    /\ idx' = idx + 1
    /\ requests' = requests + 1
    /\ LET r == get_mayors_for_state(site[states[idx']])
       IN  IF r.exc # ""
           THEN /\ exc' = r.exc
                /\ pc' = "failed"
                /\ pending' = <<>>
           ELSE /\ pending' = r.list
                /\ UNCHANGED <<exc, pc>>
    /\ UNCHANGED <<states, site, format, yielded, sink>>

\* The yield with a csv writer that collects the records and writes no row
\* as they come.
get_mayors_yield_buffered ==
    /\ pc = "iter"
    /\ pending # <<>>
    /\ yielded' = Append(yielded, Head(pending))
    /\ pending' = Tail(pending)
    /\ UNCHANGED <<states, site, pc, format, exc, idx, requests, sink>>

\* get_mayors: `yield mayor`, and what the writer does with the record:
\* w.writerow(mayor) for csv, the next element of list(mayors) for json.
get_mayors_yield ==
    /\ pc = "iter"
    /\ pending # <<>>
    /\ yielded' = Append(yielded, Head(pending))
    /\ pending' = Tail(pending)
    /\ sink' = IF format = <<"csv">>
               THEN Append(sink, writerow(Head(pending)))
               ELSE sink
    /\ UNCHANGED <<states, site, pc, format, exc, idx, requests>>

\* get_mayors is exhausted: write_to_csv returns, write_to_json dumps the list.
writer_finish ==
    /\ pc = "iter"
    /\ pending = <<>>
    /\ idx = Len(states)
    /\ sink' = IF format = <<"json">>
               THEN Append(sink, json_dump(yielded))
               ELSE sink
    /\ pc' = "done"
    /\ UNCHANGED <<states, site, format, exc, idx, requests, pending, yielded>>

Next ==
    \/ parse_arguments
    \/ write_to_csv_start
    \/ write_to_json_start
    \/ get_mayors_next_state
    \/ get_mayors_yield
    \/ writer_finish

Spec == Init /\ [][Next]_vars

\* The same program on one state whose page holds any one card, followed
\* by a plain one.
InitCards ==
    /\ states = <<"Alabama">>
    /\ \E c \in AllCards : site = [n \in StateNames |-> Page(<<c, GoodB>>)]
    /\ pc = "args"
    /\ format = None
    /\ exc = ""
    /\ idx = 0
    /\ requests = 0
    /\ pending = <<>>
    /\ yielded = <<>>
    /\ sink = <<>>

SpecCards == InitCards /\ [][Next]_vars

---------------------------------------------------------------------------
(* what the properties speak of *)

\* the page fetched for the i-th state of the list
page_of(i) == site[states[i]]

NotBr(node) == node.name # "br"

\* the child nodes of a card, line breaks aside
fields_of(ul) == SelectSeq(contents(ul), NotBr)

\* The card has its leading fields: a photo node with a src, a name node
\* and a "City, State" text.
HasLeadingFields(ul) ==
    LET items == fields_of(ul)
    IN  /\ Len(items) >= 4
        /\ ~IsStr(items[2]) /\ "src" \in DOMAIN items[2].attrs
        /\ IsStr(items[4]) /\ InStr(",", items[4].text)

\* the records of a page that holds this card alone
CardRecords(ul) == get_mayors_for_state(Page(<<ul>>)).list

\* the records of the cards of a list that have their leading fields, in
\* the order of the list
RECURSIVE RecordsOfCards(_)
RecordsOfCards(uls) ==
    IF uls = <<>> THEN <<>>
    ELSE (IF HasLeadingFields(Head(uls)) THEN CardRecords(Head(uls)) ELSE <<>>)
         \o RecordsOfCards(Tail(uls))

\* the records of the first k states of the list, in the order of the list
RECURSIVE RecordsUpTo(_)
RecordsUpTo(k) ==
    IF k = 0 THEN <<>>
    ELSE RecordsUpTo(k - 1) \o RecordsOfCards(page_of(k).uls)

\* the csv rows of a sequence of records
Rows(records) == [i \in 1..Len(records) |-> writerow(records[i])]

\* The card is one the extractor reads the fields of, and holds an election
\* date that is no MM/DD/YYYY date.
HasBadDate(ul) ==
    LET items == fields_of(ul)
    IN  \E i \in 1..Len(items) :
          /\ HasLeadingFields(ul)
          /\ IsStr(items[i])
          /\ InStr("Next Election Date", items[i].text)
          /\ LET parts == split(items[i].text, ":")
             IN  Len(parts) >= 2 /\ strptime(strip(parts[2])).exc # ""

\* The answer is fatal: an error status, or a card with a bad date.
FatalPage(page) ==
    \/ page.status >= 400
    \/ /\ page.content
       /\ \E i \in 1..Len(page.uls) : HasBadDate(page.uls[i])

---------------------------------------------------------------------------
(* C1: the records handed to the writer are the records of the well-formed
   cards, state by state in the order of the list and card by card in the
   order of the page: while the generator runs, what it has yielded and
   still holds is the concatenation for the states taken so far; a run that
   failed has yielded the concatenation for the states before the failing
   one; a run that ended has taken every state and holds nothing back. *)
C1_Concatenation ==
    /\ pc \in {"iter", "done"} => yielded \o pending = RecordsUpTo(idx)
    /\ (pc = "failed" /\ idx >= 1) => yielded = RecordsUpTo(idx - 1)
    /\ pc = "done" => idx = Len(states) /\ pending = <<>>

\* Two states, the first with two valid cards around a malformed one, and
\* the three records written.
C1_Witness ==
    /\ pc = "done"
    /\ Len(states) = 2
    /\ states[1] # states[2]
    /\ page_of(1) = ScenarioPage
    /\ page_of(2) = Page(<<GoodA>>)
    /\ Len(yielded) = 3
    /\ yielded[1] # yielded[2]

(* C4: a fatal answer (an error status, an election date that does not
   parse) ends the run in failure at the state it came for, with no later
   state fetched and no record of that state or a later one yielded; a
   failed run takes no further step; a run ends successfully only with
   every state fetched, none of them fatal, and every record written. *)
C4_FatalAbsorbing ==
    /\ \A i \in 1..idx :
         FatalPage(page_of(i)) =>
            /\ pc = "failed"
            /\ idx = i
            /\ requests = i
            /\ pending = <<>>
            /\ yielded = RecordsUpTo(i - 1)
    /\ pc = "failed" => ~ENABLED Next
    /\ pc = "done" =>
         /\ requests = Len(states)
         /\ \A i \in 1..Len(states) : ~FatalPage(page_of(i))
         /\ yielded = RecordsUpTo(Len(states))
         /\ format = <<"csv">> => sink = <<writeheader>> \o Rows(yielded)
         /\ format = <<"json">> => sink = <<json_dump(yielded)>>

\* A bad date in the first of two states: the run has failed, the second
\* state was never fetched, and the valid card before the bad one was
\* not yielded.
C4_Witness ==
    /\ pc = "failed"
    /\ exc = "ValueError"
    /\ Len(states) = 2
    /\ idx = 1
    /\ requests = 1
    /\ page_of(1) = Page(<<GoodB, BadDate>>)
    /\ yielded = <<>>

(* C5: once the arguments are parsed, a format that is neither csv nor json
   means the run has failed with no request issued. *)
C5_NoFetchOnBadFormat ==
    (pc # "args" /\ format \notin {<<"csv">>, <<"json">>}) =>
        pc = "failed" /\ requests = 0 /\ idx = 0 /\ sink = <<>>

\* The format guessed from mayors.txt, with states to scrape.
C5_Witness ==
    /\ pc = "failed"
    /\ exc = "KeyError"
    /\ format = <<"txt">>
    /\ states # <<>>
    /\ requests = 0

(* C10: with the csv writer the sink holds the header from before the first
   request on, and whenever the k-th state has been requested it holds the
   rows of every state before the k-th, then the rows yielded of the k-th:
   after a failure at the k-th state, the header and the rows of the states
   before it.  With the json writer the sink is empty until the run ends,
   and then holds the one array of all the records. *)
C10_SinkTracksPipeline ==
    /\ (format = <<"csv">> /\ pc \in {"iter", "done", "failed"}) =>
         /\ sink = <<writeheader>> \o Rows(yielded)
         /\ idx >= 1 => /\ Len(sink) >= 1 + Len(RecordsUpTo(idx - 1))
                        /\ SubSeq(sink, 2, 1 + Len(RecordsUpTo(idx - 1)))
                             = Rows(RecordsUpTo(idx - 1))
         /\ pc = "failed" => Len(sink) = 1 + Len(RecordsUpTo(idx - 1))
    /\ format = <<"json">> =>
         /\ pc # "done" => sink = <<>>
         /\ pc = "done" => sink = <<json_dump(RecordsUpTo(Len(states)))>>
    /\ requests >= 1 => format \in {<<"csv">>, <<"json">>}

\* csv, a failure at the second state: the header and the rows of the first.
C10_Witness ==
    /\ pc = "failed"
    /\ format = <<"csv">>
    /\ idx = 2
    /\ page_of(1) = ScenarioPage
    /\ Len(sink) = 3

---------------------------------------------------------------------------
(* Statements that the program does not satisfy.  They are checked on one
   state whose page holds any one card followed by a plain one. *)

\* the first card of the page of the first state
first_card == page_of(1).uls[1]

\* the text before, and after, the first occurrence of sep in t
FirstAt(t, sep) == CHOOSE j \in 1..Len(t) : t[j] = sep /\ \A k \in 1..(j-1) : t[k] # sep
BeforeFirst(t, sep) == SubSeq(t, 1, FirstAt(t, sep) - 1)
AfterFirst(t, sep) == SubSeq(t, FirstAt(t, sep) + 1, Len(t))

\* the text of a node: its own, or that of its contents, in order
RECURSIVE TextOf(_), TextOfNodes(_, _)
TextOfNodes(nodes, k) ==
    IF k = 0 THEN <<>> ELSE TextOfNodes(nodes, k - 1) \o TextOf(nodes[k])
TextOf(node) ==
    IF IsStr(node) THEN node.text ELSE TextOfNodes(node.kids, Len(node.kids))

(* C2: a card that lacks one of its leading fields gives no record and does
   not end the run: the card after it is still extracted. *)
C2_MalformedBlockSkipped ==
    (requests = 1 /\ ~HasLeadingFields(first_card)) =>
        pc # "failed" /\ yielded \o pending = CardRecords(GoodB)

(* C3: a page without a content region, or whose content region has no
   list, does not end the run. *)
C3_NoContentIsEmpty ==
    \A i \in 1..idx :
        (page_of(i).status = 200 /\ (~page_of(i).content \/ page_of(i).uls = <<>>))
            => ~(pc = "failed" /\ idx = i)

(* C6: every record yielded has img_url, name, city and state, none of them
   None or empty. *)
C6_RequiredFieldsPopulated ==
    \A i \in 1..Len(yielded) :
        \A f \in {"img_url", "name", "city", "state"} :
            /\ f \in DOMAIN yielded[i]
            /\ yielded[i][f] # None
            /\ yielded[i][f] # <<>>

(* C7: at the end of the run the sink holds one entry per record in the
   order of arrival; a field absent from a record is an empty cell of its
   csv row and no key of its json object; no field is written as None or
   null. *)
C7_SerializerOutput ==
    /\ (pc = "done" /\ format = <<"csv">>) =>
         /\ Len(sink) = 1 + Len(yielded)
         /\ sink[1] = [i \in 1..Len(CSV_FIELDS) |-> <<CSV_FIELDS[i]>>]
         /\ \A r \in 1..Len(yielded) : \A i \in 1..Len(CSV_FIELDS) :
              /\ CSV_FIELDS[i] \notin DOMAIN yielded[r] => sink[r + 1][i] = <<>>
              /\ (CSV_FIELDS[i] \in DOMAIN yielded[r]
                    /\ yielded[r][CSV_FIELDS[i]] # None) =>
                       sink[r + 1][i] = yielded[r][CSV_FIELDS[i]]
              /\ sink[r + 1][i] # None
    /\ (pc = "done" /\ format = <<"json">>) =>
         /\ Len(sink) = 1
         /\ Len(sink[1]) = Len(yielded)
         /\ \A r \in 1..Len(yielded) :
              /\ DOMAIN sink[1][r] = DOMAIN yielded[r]
              /\ \A k \in DOMAIN yielded[r] :
                   /\ sink[1][r][k].type # "null"
                   /\ yielded[r][k] # None => sink[1][r][k].str = yielded[r][k]

(* C8: city is the trimmed text before the first comma of the "City, State"
   text and state the trimmed whole text after it; a text without a comma
   gives no record. *)
C8_FirstCommaSplit ==
    LET items == fields_of(first_card)
        recs  == yielded \o pending
    IN  (requests = 1 /\ pc # "failed" /\ Len(items) >= 4 /\ IsStr(items[4])) =>
           IF InStr(",", items[4].text)
           THEN /\ Len(recs) = 2
                /\ recs[1]["city"] = strip(BeforeFirst(items[4].text, ","))
                /\ recs[1]["state"] = strip(AfterFirst(items[4].text, ","))
           ELSE recs = CardRecords(GoodB)

\* the record the chain of C9 makes of a link
LinkRule(data, a) ==
    LET text == TextOf(a)
        href == IF "href" \in DOMAIN a.attrs THEN a.attrs["href"] ELSE None
    IN  IF InStr("Web Site", text) THEN Put(data, "city_site_url", href)
        ELSE IF InStr("Bio", text) THEN Put(data, "bio_url", href)
        ELSE IF href # None /\ href # <<>> /\ href[1] = "tel:"
        THEN Put(data, "phone", parse_phone(text))
        ELSE IF href # None /\ href # <<>> /\ href[1] = "mailto:"
        THEN Put(data, "email", text)
        ELSE data

(* C9: a link of a card sets the one field of the first rule it matches
   (text contains "Web Site", text contains "Bio", target begins with tel:,
   target begins with mailto:), and a link that matches no rule, one without
   a target included, sets no field and does not end the run. *)
C9_LinkPriorityChain ==
    LET items == fields_of(first_card)
        recs  == yielded \o pending
    IN  (/\ requests = 1
         /\ first_card.photo = "img" /\ first_card.name = "b"
         /\ first_card.place = "plain"
         /\ Len(items) = 5 /\ items[5].name = "a") =>
           /\ pc # "failed"
           /\ Len(recs) = 2
           /\ recs[1] = LinkRule(CardRecords(Card("img", "b", "plain", "none"))[1],
                                 items[5])

=============================================================================
